---- MODULE Spec2Model ----
(***************************************************************************)
(* create-zpool: the Talos ZFS pool extension's creator binary.            *)
(*                                                                         *)
(* main looks up the zpool tool, parses the indexed ZPOOL_* environment    *)
(* variables into pool configurations and runs createPool on each of them  *)
(* in turn, collecting the per-pool errors; the exit code is decided after *)
(* the whole batch.                                                        *)
(*                                                                         *)
(* A Go string is modelled as a sequence of one-character strings, so that *)
(* tokenising, quoting, prefix tests and concatenation are computed on the *)
(* characters.  Environment variable names are TLA+ strings: they are only *)
(* ever built and looked up.                                               *)
(***************************************************************************)
EXTENDS Integers, Sequences, FiniteSets, TLC

VARIABLES
    env,         \* the process environment: variable name -> value (set variables only)
    pc,          \* main's position
    zpoolPath,   \* the path LookPath returned
    configs,     \* the parsed pool configurations
    limitWarned, \* parsePoolConfigs logged the "maximum number of pools" warning
    idx,         \* 1-based position of the range loop over configs
    d,           \* createPool: 1-based position of the loop over config.Disks
    disksToUse,  \* createPool: the disks that probed as block devices
    allErrors,   \* main: the collected per-pool errors
    exitCode,    \* <<>> while running, <<c>> once the process has exited with code c
    parsed,      \* history: parsePoolConfigs has been called
    started,     \* history: the indices createPool was called for, in call order
    outcomes,    \* history: what each createPool call returned, in return order
    calls        \* history: the provider calls made, in call order

vars == <<env, pc, zpoolPath, configs, limitWarned, idx, d, disksToUse,
          allErrors, exitCode, parsed, started, outcomes, calls>>

----------------------------------------------------------------------------
(* Program constants.                                                      *)

defaultAshift == <<"1", "2">>

maxPools == 42

----------------------------------------------------------------------------
(* Bounds of the model.                                                    *)

\* Batch environments configure the indices 0 .. NumIdx-1.
NumIdx == 3

\* Single-pool environments list at most MaxDisks disks.
MaxDisks == 3

\* Parse environments may set variables up to index maxPools + ExtraIdx.
ExtraIdx == 2

\* Name environments hold every string of 1 .. MaxNameLen characters over
\* NameAlphabet.
MaxNameLen == 2

\* The service is run at most MaxRuns times over the same environment.
MaxRuns == 2

\* Ashift environments hold every string of 0 .. MaxAshiftLen characters over
\* AshiftAlphabet.
MaxAshiftLen == 2

----------------------------------------------------------------------------
(* Strings.                                                                *)

LowerLetters ==
    {"a", "b", "c", "d", "e", "f", "g", "h", "i", "j", "k", "l", "m",
     "n", "o", "p", "q", "r", "s", "t", "u", "v", "w", "x", "y", "z"}

UpperLetters ==
    {"A", "B", "C", "D", "E", "F", "G", "H", "I", "J", "K", "L", "M",
     "N", "O", "P", "Q", "R", "S", "T", "U", "V", "W", "X", "Y", "Z"}

DigitChars == <<"0", "1", "2", "3", "4", "5", "6", "7", "8", "9">>

Digits == {DigitChars[i] : i \in 1..10}

\* The ASCII white space strings.Fields splits on (the vertical tab, which a
\* TLA+ string cannot hold, is left out).
asciiSpace == {" ", "\t", "\n", "\r", "\f"}

HasPrefix(s, prefix) ==
    /\ Len(s) >= Len(prefix)
    /\ SubSeq(s, 1, Len(prefix)) = prefix

\* The decimal digits of a natural number (fmt's %d).
RECURSIVE Itoa(_)
Itoa(n) ==
    IF n < 10 THEN <<DigitChars[n + 1]>>
    ELSE Append(Itoa(n \div 10), DigitChars[(n % 10) + 1])

\* The TLA+ string of a character sequence.
RECURSIVE StrOf(_)
StrOf(s) == IF s = <<>> THEN "" ELSE Head(s) \o StrOf(Tail(s))

\* fmt.Sprintf(prefix + "%d", i): the name of an indexed variable.
Key(prefix, i) == prefix \o StrOf(Itoa(i))

\* strings.Fields: the maximal runs of non-space characters, in order.
RECURSIVE FieldsFrom(_, _, _)
FieldsFrom(s, i, cur) ==
    IF i > Len(s) THEN (IF cur = <<>> THEN <<>> ELSE <<cur>>)
    ELSE IF s[i] \in asciiSpace
         THEN (IF cur = <<>> THEN <<>> ELSE <<cur>>) \o FieldsFrom(s, i + 1, <<>>)
         ELSE FieldsFrom(s, i + 1, Append(cur, s[i]))

\* A tokeniser that splits on the space character only.
FieldsSpaceOnly(s) ==
    LET RECURSIVE F(_, _)
        F(i, cur) ==
            IF i > Len(s) THEN (IF cur = <<>> THEN <<>> ELSE <<cur>>)
            ELSE IF s[i] = " "
                 THEN (IF cur = <<>> THEN <<>> ELSE <<cur>>) \o F(i + 1, <<>>)
                 ELSE F(i + 1, Append(cur, s[i]))
    IN  F(1, <<>>)

Fields(s) == FieldsFrom(s, 1, <<>>)

\* fmt's %q of one character: Go's escapes for the quote, the backslash and
\* the control characters; every other character of the model is printable
\* ASCII and stands for itself.
QuoteChar(c) ==
    CASE c = "\"" -> <<"\\", "\"">>
      [] c = "\\" -> <<"\\", "\\">>
      [] c = "\t" -> <<"\\", "t">>
      [] c = "\n" -> <<"\\", "n">>
      [] c = "\r" -> <<"\\", "r">>
      [] c = "\f" -> <<"\\", "f">>
      [] OTHER    -> <<c>>

RECURSIVE QuoteBody(_)
QuoteBody(s) == IF s = <<>> THEN <<>> ELSE QuoteChar(Head(s)) \o QuoteBody(Tail(s))

\* fmt's %q of a string: the escaped characters between double quotes.
Quote(s) == <<"\"">> \o QuoteBody(s) \o <<"\"">>

----------------------------------------------------------------------------
(* The environment.                                                        *)

\* os.Getenv: the value, or the empty string when the variable is not set.
Getenv(e, key) == IF key \in DOMAIN e THEN e[key] ELSE <<>>

\* A lookup that also falls back when the variable is set to the empty string.
getEnvNonEmpty(e, key, fallback) ==
    IF key \in DOMAIN e /\ e[key] # <<>> THEN e[key] ELSE fallback

\* getEnv: the value when the variable is set (os.LookupEnv), else the fallback.
getEnv(e, key, fallback) == IF key \in DOMAIN e THEN e[key] ELSE fallback

----------------------------------------------------------------------------
(* Validators.                                                             *)

reservedNames == {<<"m", "i", "r", "r", "o", "r">>, <<"r", "a", "i", "d", "z">>, <<"d", "r", "a", "i", "d">>, <<"s", "p", "a", "r", "e">>, <<"l", "o", "g">>}

reservedPrefixes == {<<"m", "i", "r", "r", "o", "r">>, <<"r", "a", "i", "d", "z">>, <<"d", "r", "a", "i", "d">>, <<"s", "p", "a", "r", "e">>}

allowedTypes ==
    {<<>>, <<"m", "i", "r", "r", "o", "r">>, <<"r", "a", "i", "d", "z">>, <<"r", "a", "i", "d", "z", "1">>, <<"r", "a", "i", "d", "z", "2">>, <<"r", "a", "i", "d", "z", "3">>,
     <<"d", "r", "a", "i", "d">>, <<"d", "r", "a", "i", "d", "1">>, <<"d", "r", "a", "i", "d", "2">>, <<"d", "r", "a", "i", "d", "3">>}

\* ^[a-zA-Z][a-zA-Z0-9_.: -]*$
MatchesNamePattern(name) ==
    /\ name # <<>>
    /\ name[1] \in LowerLetters \cup UpperLetters
    /\ \A i \in 2..Len(name) :
           name[i] \in LowerLetters \cup UpperLetters \cup Digits
                       \cup {"_", ".", ":", " ", "-"}

\* A validator without the check for reserved prefixes.
isValidZpoolNameWithoutPrefixes(name) ==
    /\ name # <<>>
    /\ MatchesNamePattern(name)
    /\ name \notin reservedNames

isValidZpoolName(name) ==
    /\ name # <<>>
    /\ MatchesNamePattern(name)
    /\ name \notin reservedNames
    /\ \A prefix \in reservedPrefixes : ~HasPrefix(name, prefix)

\* A validator that accepts whatever begins with an allowed type.
isValidZpoolTypeByPrefix(poolType) ==
    \/ poolType = <<>>
    \/ \E t \in allowedTypes : t # <<>> /\ HasPrefix(poolType, t)

isValidZpoolType(poolType) == poolType \in allowedTypes

\* The value of a decimal digit.
DigitVal(c) == CHOOSE v \in 0..9 : DigitChars[v + 1] = c

\* A digit string without its leading zeros.
RECURSIVE StripZeros(_)
StripZeros(ds) ==
    IF ds # <<>> /\ Head(ds) = "0" THEN StripZeros(Tail(ds)) ELSE ds

\* a <= b for digit strings of the same length.
RECURSIVE DigitsLexLeq(_, _)
DigitsLexLeq(a, b) ==
    IF a = <<>> THEN TRUE
    ELSE IF Head(a) # Head(b) THEN DigitVal(Head(a)) < DigitVal(Head(b))
    ELSE DigitsLexLeq(Tail(a), Tail(b))

\* a <= b for digit strings without leading zeros.
DigitsLeq(a, b) ==
    \/ Len(a) < Len(b)
    \/ Len(a) = Len(b) /\ DigitsLexLeq(a, b)

\* The magnitudes of the largest and of the smallest int (64 bits).
maxInt64 == <<"9", "2", "2", "3", "3", "7", "2", "0", "3", "6", "8", "5", "4", "7", "7", "5", "8", "0", "7">>

minInt64Magnitude == <<"9", "2", "2", "3", "3", "7", "2", "0", "3", "6", "8", "5", "4", "7", "7", "5", "8", "0", "8">>

\* A validator that accepts unsigned digit strings only.
isValidAshiftUnsigned(ashift) ==
    /\ ashift # <<>>
    /\ \A i \in 1..Len(ashift) : ashift[i] \in Digits

\* strconv.Atoi succeeds: an optional sign, at least one decimal digit and
\* nothing else (a syntax error otherwise), and a value that fits the 64-bit
\* int (a range error otherwise).
isValidAshift(ashift) ==
    /\ ashift # <<>>
    /\ LET neg  == ashift[1] = "-"
           body == IF ashift[1] \in {"+", "-"} THEN Tail(ashift) ELSE ashift
       IN  /\ body # <<>>
           /\ \A i \in 1..Len(body) : body[i] \in Digits
           /\ DigitsLeq(StripZeros(body),
                        IF neg THEN minInt64Magnitude ELSE maxInt64)

----------------------------------------------------------------------------
(* parsePoolConfigs.                                                       *)

\* A loop body that reads the ashift from ASHIFT_<i> and ASHIFT.
ConfigAtUnprefixedAshift(e, i) ==
    [Name   |-> Getenv(e, Key("ZPOOL_NAME_", i)),
     Type   |-> Getenv(e, Key("ZPOOL_TYPE_", i)),
     Disks  |-> Fields(Getenv(e, Key("ZPOOL_DISKS_", i))),
     Ashift |-> getEnv(e, Key("ASHIFT_", i), getEnv(e, "ASHIFT", defaultAshift))]

\* The configuration the loop body builds for index i.
ConfigAt(e, i) ==
    [Name   |-> Getenv(e, Key("ZPOOL_NAME_", i)),
     Type   |-> Getenv(e, Key("ZPOOL_TYPE_", i)),
     Disks  |-> Fields(Getenv(e, Key("ZPOOL_DISKS_", i))),
     Ashift |-> getEnv(e, Key("ZPOOL_ASHIFT_", i),
                       getEnv(e, "ZPOOL_ASHIFT", defaultAshift))]

\* A parse loop that skips an unset index instead of stopping at it.
RECURSIVE parseSkippingGaps(_, _)
parseSkippingGaps(e, i) ==
    IF i >= maxPools THEN <<>>
    ELSE IF Getenv(e, Key("ZPOOL_NAME_", i)) = <<>> THEN parseSkippingGaps(e, i + 1)
    ELSE <<ConfigAt(e, i)>> \o parseSkippingGaps(e, i + 1)

\* A parse loop whose bound is off by one (i <= maxPools).
RECURSIVE parseOneTooMany(_, _)
parseOneTooMany(e, i) ==
    IF i > maxPools THEN <<>>
    ELSE IF Getenv(e, Key("ZPOOL_NAME_", i)) = <<>> THEN <<>>
    ELSE <<ConfigAt(e, i)>> \o parseOneTooMany(e, i + 1)

\* A parse loop that validates as it goes and stops at the first configuration
\* whose name, type or ashift is invalid.
RECURSIVE parseStoppingAtInvalid(_, _)
parseStoppingAtInvalid(e, i) ==
    IF i >= maxPools THEN <<>>
    ELSE IF Getenv(e, Key("ZPOOL_NAME_", i)) = <<>> THEN <<>>
    ELSE IF ~(/\ isValidZpoolName(ConfigAt(e, i).Name)
              /\ isValidZpoolType(ConfigAt(e, i).Type)
              /\ isValidAshift(ConfigAt(e, i).Ashift)) THEN <<>>
    ELSE <<ConfigAt(e, i)>> \o parseStoppingAtInvalid(e, i + 1)

\* The loop `for i := range maxPools` from index i on: stop at the first index
\* whose name is unset or empty.
RECURSIVE parseFrom(_, _)
parseFrom(e, i) ==
    IF i >= maxPools THEN <<>>
    ELSE IF Getenv(e, Key("ZPOOL_NAME_", i)) = <<>> THEN <<>>
    ELSE <<ConfigAt(e, i)>> \o parseFrom(e, i + 1)

parsePoolConfigs(e) == parseFrom(e, 0)

\* The warning after the loop.
LimitWarning(e) == Getenv(e, Key("ZPOOL_NAME_", maxPools)) # <<>>

----------------------------------------------------------------------------
(* Errors.                                                                 *)

\* A Go error value: nil, or an error with its message.
Nil == [isErr |-> FALSE, msg |-> <<>>]

Err(m) == [isErr |-> TRUE, msg |-> m]

\* A wrapping that leaves the pool's name out of the message.
WrapWithoutName(name, err) == <<"p", "o", "o", "l", ":", " ">> \o err.msg

\* fmt.Errorf("pool %q: %w", config.Name, err)
WrapPoolErr(name, err) == <<"p", "o", "o", "l", " ">> \o Quote(name) \o <<":", " ">> \o err.msg

\* A collection that records an entry for every pool, failed or not.
CollectAlways(errs, name, err) == Append(errs, WrapPoolErr(name, err))

\* main's `if err != nil { allErrors = append(allErrors, ...) }`
Collect(errs, name, err) ==
    IF err.isErr THEN Append(errs, WrapPoolErr(name, err)) ELSE errs

ErrNoUsableDisks == Err(<<"n", "o", " ", "u", "s", "a", "b", "l", "e", " ", "b", "l", "o", "c", "k", " ", "d", "e", "v", "i", "c", "e", "s", " ", "f", "o", "u", "n", "d", " ", "f", "r", "o", "m", " ", "t", "h", "e", " ", "p", "r", "o", "v", "i", "d", "e", "d", " ", "l", "i", "s", "t">>)

\* A create error that leaves the command's output out.
ErrCreateFailedWithoutOutput(errText, output) ==
    Err(<<"z", "p", "o", "o", "l", " ", "c", "r", "e", "a", "t", "e", " ", "c", "o", "m", "m", "a", "n", "d", " ", "f", "a", "i", "l", "e", "d", ":", " ">> \o errText)

\* fmt.Errorf("zpool create command failed: %w. Output: %s", err, string(output))
ErrCreateFailed(errText, output) ==
    Err(<<"z", "p", "o", "o", "l", " ", "c", "r", "e", "a", "t", "e", " ", "c", "o", "m", "m", "a", "n", "d", " ", "f", "a", "i", "l", "e", "d", ":", " ">> \o errText \o <<".", " ", "O", "u", "t", "p", "u", "t", ":", " ">> \o output)

----------------------------------------------------------------------------
(* createPool.                                                             *)

\* The validation at the head of createPool: the error it returns, or nil.
Validate(config) ==
    IF ~isValidZpoolName(config.Name)
    THEN Err(<<"i", "n", "v", "a", "l", "i", "d", " ", "n", "a", "m", "e", ":", " ">> \o Quote(config.Name))
    ELSE IF ~isValidZpoolType(config.Type)
    THEN Err(<<"i", "n", "v", "a", "l", "i", "d", " ", "t", "y", "p", "e", ":", " ">> \o Quote(config.Type))
    ELSE IF ~isValidAshift(config.Ashift)
    THEN Err(<<"i", "n", "v", "a", "l", "i", "d", " ", "a", "s", "h", "i", "f", "t", " ", "v", "a", "l", "u", "e", ":", " ">> \o Quote(config.Ashift))
    ELSE Nil

\* A createPool that checks for an empty disk list before it validates.
createPoolDisksFirst(config) ==
    IF Len(config.Disks) = 0 THEN [next |-> "return", err |-> Nil]
    ELSE IF Validate(config).isErr THEN [next |-> "return", err |-> Validate(config)]
    ELSE [next |-> "exists", err |-> Nil]

\* A createPool that reports an empty disk list as an error.
createPoolRejectingNoDisks(config) ==
    IF Validate(config).isErr THEN [next |-> "return", err |-> Validate(config)]
    ELSE IF Len(config.Disks) = 0
    THEN [next |-> "return", err |-> Err(<<"n", "o", " ", "d", "i", "s", "k", "s", " ", "s", "p", "e", "c", "i", "f", "i", "e", "d">>)]
    ELSE [next |-> "exists", err |-> Nil]

\* createPool up to its first provider call: return the validation error,
\* return nil when no disks are listed, else go on to the existence check.
createPoolEntry(config) ==
    IF Validate(config).isErr THEN [next |-> "return", err |-> Validate(config)]
    ELSE IF Len(config.Disks) = 0 THEN [next |-> "return", err |-> Nil]
    ELSE [next |-> "exists", err |-> Nil]

\* A createPool that skips a pool once an earlier pool has failed.
createPoolSkippingAfterFailure(exists) ==
    IF exists \/ allErrors # <<>> THEN "return" ELSE "probe"

\* A createPool that probes the disks whether or not the pool exists.
createPoolIgnoringExists(exists) == "probe"

\* A createPool whose existence check is inverted.
createPoolNegatedExists(exists) == IF exists THEN "probe" ELSE "return"

\* After PoolExists: return nil when the pool exists, else go on to probe.
createPoolAfterExists(exists) == IF exists THEN "return" ELSE "probe"

\* A probe loop that keeps every disk whose probe returned no error.
disksAfterProbeIgnoringIsBlock(usable, disk, answer) ==
    IF answer # "error" THEN Append(usable, disk) ELSE usable

\* One round of the probe loop: the disk is kept when IsBlockDevice returned
\* (true, nil) and skipped otherwise.
disksAfterProbe(usable, disk, answer) ==
    IF answer = "block" THEN Append(usable, disk) ELSE usable

\* A createPool that goes on to create whatever the probes returned.
createPoolCreatingAnyway(usable) == [next |-> "create", err |-> Nil]

\* A createPool that returns nil when no disk is usable.
createPoolSkippingUnusable(usable) ==
    IF Len(usable) = 0 THEN [next |-> "return", err |-> Nil]
    ELSE [next |-> "create", err |-> Nil]

\* After the probe loop: fail when no disk is usable, else go on to create.
createPoolAfterProbes(usable) ==
    IF Len(usable) = 0 THEN [next |-> "return", err |-> ErrNoUsableDisks]
    ELSE [next |-> "create", err |-> Nil]

\* An argument list with the force flag.
CreateArgsWithForce(config, disks) ==
    <<<<"c", "r", "e", "a", "t", "e">>, <<"-", "f">>, <<"-", "m">>, <<"/", "v", "a", "r", "/", "m", "n", "t", "/">> \o config.Name,
      <<"-", "o">>, <<"a", "s", "h", "i", "f", "t", "=">> \o config.Ashift, config.Name>>
    \o (IF config.Type # <<>> THEN <<config.Type>> ELSE <<>>)
    \o disks

\* The argument list of the zpool create command.
CreateArgs(config, disks) ==
    <<<<"c", "r", "e", "a", "t", "e">>, <<"-", "m">>, <<"/", "v", "a", "r", "/", "m", "n", "t", "/">> \o config.Name,
      <<"-", "o">>, <<"a", "s", "h", "i", "f", "t", "=">> \o config.Ashift, config.Name>>
    \o (IF config.Type # <<>> THEN <<config.Type>> ELSE <<>>)
    \o disks

\* A createPool that fails when the status query fails.
createPoolFailingOnStatus(ok) ==
    IF ok THEN Nil ELSE Err(<<"f", "a", "i", "l", "e", "d", " ", "t", "o", " ", "g", "e", "t", " ", "p", "o", "o", "l", " ", "s", "t", "a", "t", "u", "s">>)

\* After GetPoolStatus: its error is logged as a warning, createPool returns nil.
createPoolAfterStatus(ok) == Nil

----------------------------------------------------------------------------
(* main.                                                                   *)

\* A main that goes on to parse although the tool was not found.
mainIgnoringLookPath(found) == "parse"

\* After LookPath: exit 1 when the tool is not found.
mainAfterLookPath(found) == IF found THEN "parse" ELSE "exit1"

\* A main that reports an empty configuration as a failure.
mainFailingOnEmpty(cfgs) == IF Len(cfgs) = 0 THEN "exit1" ELSE "loop"

\* After parsePoolConfigs: exit 0 when there is nothing to do.
mainAfterParse(cfgs) == IF Len(cfgs) = 0 THEN "exit0" ELSE "loop"

\* A loop that calls createPool again for a pool that failed.
LoopRetryOnError(i, err) == IF err.isErr THEN i ELSE i + 1

\* A loop that starts over from the first pool after a later pool failed.
LoopRestartOnError(i, err) == IF err.isErr /\ i > 1 THEN 1 ELSE i + 1

\* A loop that stops at the first pool that fails.
LoopAbortOnError(i, err) == IF err.isErr THEN Len(configs) + 1 ELSE i + 1

\* The range loop over configs goes on to the next configuration whatever
\* createPool returned.
LoopAdvance(i, err) == i + 1

\* An exit status that counts the collected errors.
ExitStatusCountingErrors(errs) == Len(errs)

\* An exit status that ignores the collected errors.
ExitStatusAlwaysZero(errs) == 0

\* The exit status after the loop.
ExitStatus(errs) == IF Len(errs) > 0 THEN 1 ELSE 0

----------------------------------------------------------------------------
(* The provider's answers.                                                 *)

\* exec.LookPath's result for "zpool" when it is found.
FoundPath == "/usr/local/sbin/zpool"

\* IsBlockDevice: (true, nil), (false, nil) or (false, err).
ProbeAnswers == {"block", "notblock", "error"}

\* CreatePool: the exec error's text (when it fails) and the combined output.
CreateAnswers ==
    {[failed |-> FALSE, errText |-> <<>>, output |-> <<>>],
     [failed |-> TRUE, errText |-> <<"e", "x", "i", "t", " ", "s", "t", "a", "t", "u", "s", " ", "1">>, output |-> <<"b", "u", "s", "y">>]}

----------------------------------------------------------------------------
(* Environments.                                                           *)

\* The variable `key`, set to the value in S (at most one), or unset.
Opt(key, S) == [k \in {key : v \in S} |-> CHOOSE v \in S : TRUE]

\* The variables of pool index i, each set to a value or left unset.
PoolVars(name, disks, type, ashift) ==
    [name |-> name, disks |-> disks, type |-> type, ashift |-> ashift]

IndexedVars(i, b) ==
    Opt(Key("ZPOOL_NAME_", i), b.name) @@ Opt(Key("ZPOOL_DISKS_", i), b.disks)
    @@ Opt(Key("ZPOOL_TYPE_", i), b.type) @@ Opt(Key("ZPOOL_ASHIFT_", i), b.ashift)

\* The environment that gives index i-1 the variables bs[i].
RECURSIVE EnvFrom(_, _)
EnvFrom(bs, i) ==
    IF i > Len(bs) THEN <<>> ELSE IndexedVars(i - 1, bs[i]) @@ EnvFrom(bs, i + 1)

\* What a batch environment may configure at one index.
BatchPools ==
    {PoolVars({}, {}, {}, {}),
     PoolVars({<<>>}, {<<"/", "d", "e", "v", "/", "s", "d", "z">>}, {}, {}),
     PoolVars({<<"t", "a", "n", "k">>}, {<<"/", "d", "e", "v", "/", "s", "d", "a">>}, {}, {}),
     PoolVars({<<"d", "a", "t", "a">>}, {<<" ", "/", "d", "e", "v", "/", "s", "d", "b", "\t">>}, {<<"m", "i", "r", "r", "o", "r">>}, {<<"1", "3">>}),
     PoolVars({<<"a", "\"", "b">>}, {<<"/", "d", "e", "v", "/", "s", "d", "c">>}, {}, {}),
     PoolVars({<<"c", "s", "i">>}, {}, {}, {}),
     PoolVars({<<"t", "a", "n", "k">>}, {<<"/", "d", "e", "v", "/", "s", "d", "d">>}, {<<"r", "a", "i", "d", "0">>}, {}),
     PoolVars({<<"d", "a", "t", "a">>}, {<<"/", "d", "e", "v", "/", "s", "d", "e">>}, {}, {<<>>})}

BatchEnvs == {EnvFrom(bs, 1) : bs \in [1..NumIdx -> BatchPools]}

\* "/dev/sda /dev/sdb ...": the first n disks, separated by one space.
DiskLetters == <<"a", "b", "c", "d", "e", "f", "g", "h">>

RECURSIVE DiskList(_)
DiskList(n) ==
    IF n = 0 THEN <<>>
    ELSE (IF n = 1 THEN <<>> ELSE DiskList(n - 1) \o <<" ">>)
         \o <<"/", "d", "e", "v", "/", "s", "d">> \o <<DiskLetters[n]>>

\* Environments that configure the single pool 0.
PoolEnvs ==
    {IndexedVars(0, PoolVars({name}, disks, type, ashift)) @@ Opt("ZPOOL_ASHIFT", global) :
        name \in {<<"t", "a", "n", "k">>, <<"a", "\"", "b">>, <<"s", "p", "a", "r", "e", "1">>, <<"l", "o", "g">>},
        disks \in {{}} \cup {{DiskList(n)} : n \in 1..MaxDisks},
        type \in {{}, {<<"m", "i", "r", "r", "o", "r">>}, {<<"r", "a", "i", "d", "0">>}},
        ashift \in {{}, {<<"1", "3">>}, {<<>>}, {<<"1", "x">>}},
        global \in {{}, {<<"9">>}, {<<>>}}}

\* Environments for the parser: the indices 0 .. n-1 are configured, index n
\* is a gap (its name unset, or set to the empty string), and index n+1 may be
\* configured again.  The pool at index i is named p<i>; its other variables
\* follow a pattern of period 4 shifted by r.
ParsePool(i, r) ==
    LET name == {<<"p">> \o Itoa(i)}
        k    == (i + r) % 4
    IN  CASE k = 0 -> PoolVars(name, {<<"/", "d", "e", "v", "/", "s", "d", "a", " ", "/", "d", "e", "v", "/", "s", "d", "b">>}, {<<"m", "i", "r", "r", "o", "r">>}, {<<"1", "3">>})
          [] k = 1 -> PoolVars(name, {<<"\t", "/", "d", "e", "v", "/", "s", "d", "c", " ", " ", "/", "d", "e", "v", "/", "s", "d", "d", "\n">>}, {}, {})
          [] k = 2 -> PoolVars(name, {}, {<<>>}, {<<>>})
          [] OTHER -> PoolVars(name, {<<" ", " ", " ">>}, {<<"r", "a", "i", "d", "0">>}, {})

ParseEnv(n, gapEmpty, resume, r, global) ==
    LET lead == [i \in 1..n |-> ParsePool(i - 1, r)]
        gap  == IF gapEmpty THEN PoolVars({<<>>}, {<<"/", "d", "e", "v", "/", "s", "d", "z">>}, {}, {})
                ELSE PoolVars({}, {}, {}, {})
    IN  EnvFrom(lead, 1) @@ IndexedVars(n, gap)
        @@ (IF resume THEN IndexedVars(n + 1, ParsePool(n + 1, r)) ELSE <<>>)
        @@ Opt("ZPOOL_ASHIFT", global)

\* The two pools of the README's example, with the ashift variables under the
\* given names.
ExampleEnv(ashift0, ashift) ==
    ("ZPOOL_NAME_0" :> <<"t", "a", "n", "k", "0">>) @@ ("ZPOOL_DISKS_0" :> <<"/", "d", "e", "v", "/", "s", "d", "a", " ", "/", "d", "e", "v", "/", "s", "d", "b">>)
    @@ ("ZPOOL_TYPE_0" :> <<"m", "i", "r", "r", "o", "r">>) @@ (ashift0 :> <<"1", "3">>)
    @@ ("ZPOOL_NAME_1" :> <<"t", "a", "n", "k", "1">>) @@ ("ZPOOL_DISKS_1" :> <<"/", "d", "e", "v", "/", "s", "d", "c">>)
    @@ (ashift :> <<"1", "2">>)

\* The README's example as printed: ASHIFT_0 and ASHIFT.
ReadmeEnv == ExampleEnv("ASHIFT_0", "ASHIFT")

\* The example with the names of the README's variable table.
PrefixedEnv == ExampleEnv("ZPOOL_ASHIFT_0", "ZPOOL_ASHIFT")

ParseEnvs ==
    {ParseEnv(n, gapEmpty, resume, r, global) :
        n \in 0..(maxPools + ExtraIdx),
        gapEmpty \in BOOLEAN, resume \in BOOLEAN, r \in 0..3,
        global \in {{}, {<<"9">>}, {<<>>}}}
    \cup {ReadmeEnv, PrefixedEnv,
          ExampleEnv("ASHIFT_0", "ZPOOL_ASHIFT"), ExampleEnv("ZPOOL_ASHIFT_0", "ASHIFT")}

\* Characters for the candidate names: a letter of either case, a digit, the
\* five other characters the pattern allows, and three it does not.
NameAlphabet == {"a", "Z", "9", "_", ".", ":", " ", "-", "!", "/", "\n"}

RECURSIVE StringsOfLen(_)
StringsOfLen(n) ==
    IF n = 0 THEN {<<>>}
    ELSE {Append(s, c) : s \in StringsOfLen(n - 1), c \in NameAlphabet}

\* Punctuation that the pattern of isValidZpoolName does not allow.
SpecialChars ==
    {"!", "@", "#", "$", "%", "^", "&", "*", "(", ")", "+", "=", "[", "]",
     "{", "}", "|", "\\", ";", "\"", "'", "<", ">", ",", "?", "/"}

\* Each of them alone, at the end, at the head and in the middle of a name.
SpecialNames ==
    UNION {{<<c>>, <<"a", c>>, <<c, "a">>, <<"a", c, "1">>} : c \in SpecialChars}

\* The reserved words, whole, extended, cut short and with a letter in front,
\* and some names in other spellings.
WordNames ==
    UNION {{w, w \o <<"1">>, w \o <<"s">>, w \o <<"-", "m", "y", "-", "p", "o", "o", "l">>, w \o <<" ">>,
            SubSeq(w, 1, Len(w) - 1), <<"x">> \o w} : w \in reservedNames}
    \cup {<<"M", "i", "r", "r", "o", "r">>, <<"R", "A", "I", "D", "Z">>, <<"L", "o", "g">>, <<"t", "a", "n", "k">>, <<"m", "y", "_", "p", "o", "o", "l", ".", "1", ":", "a", " ", "b", "-", "c">>, <<"p", "o", "o", "l", "/", "d", "a", "t", "a">>}

\* Environments that configure the single pool 0 by its name alone.
NameEnvs ==
    {("ZPOOL_NAME_0" :> name) :
        name \in (UNION {StringsOfLen(n) : n \in 1..MaxNameLen})
                  \cup SpecialNames \cup WordNames}

\* Candidate types: the allowed ones, each of them extended, cut short and
\* padded, and other spellings.
TypeCandidates ==
    UNION {{t, t \o <<"0">>, t \o <<"4">>, t \o <<" ">>, <<" ">> \o t,
            SubSeq(t, 1, Len(t) - 1), SubSeq(t, 2, Len(t))} : t \in allowedTypes}
    \cup {<<"r", "a", "i", "d", "0">>, <<"m", "i", "r", "o", "r">>, <<"M", "i", "r", "r", "o", "r">>, <<"M", "I", "R", "R", "O", "R">>, <<"R", "A", "I", "D", "Z">>, <<"R", "a", "i", "d", "z", "1">>, <<"d", "R", "A", "I", "D">>,
          <<"s", "t", "r", "i", "p", "e">>, <<"s", "p", "a", "r", "e">>, <<"l", "o", "g">>, <<"c", "a", "c", "h", "e">>, <<"r", "a", "i", "d", "z", "-", "1">>, <<"m", "i", "r", "r", "o", "r", ",", "r", "a", "i", "d", "z">>}

\* Environments that configure the single pool "tank" with a candidate type.
TypeEnvs ==
    {("ZPOOL_NAME_0" :> <<"t", "a", "n", "k">>) @@ ("ZPOOL_TYPE_0" :> t) : t \in TypeCandidates}

\* Characters for the candidate ashift values.
AshiftAlphabet == {"0", "1", "9", "-", "+", ".", "x", " "}

RECURSIVE AshiftsOfLen(_)
AshiftsOfLen(n) ==
    IF n = 0 THEN {<<>>}
    ELSE {Append(s, c) : s \in AshiftsOfLen(n - 1), c \in AshiftAlphabet}

\* Candidate ashift values beyond the short ones: words, other notations, and
\* values at and beyond the limits of the 64-bit int.
AshiftCandidates ==
    (UNION {AshiftsOfLen(n) : n \in 0..MaxAshiftLen})
    \cup {<<"1", "2">>, <<"1", "3">>, <<"-", "1", "2">>, <<"+", "1", "2">>, <<"1", "2", ".", "5">>, <<"t", "w", "e", "l", "v", "e">>, <<"0", "x", "1", "0">>, <<"1", "_", "0", "0", "0">>, <<"1", "e", "3">>,
          <<"1", "2", "\n">>, <<"\t", "1", "2">>, <<"0", "0", "1", "2">>, <<"-", "0">>, <<"-", "-", "1">>,
          <<"9", "2", "2", "3", "3", "7", "2", "0", "3", "6", "8", "5", "4", "7", "7", "5", "8", "0", "7">>, <<"9", "2", "2", "3", "3", "7", "2", "0", "3", "6", "8", "5", "4", "7", "7", "5", "8", "0", "8">>,
          <<"-", "9", "2", "2", "3", "3", "7", "2", "0", "3", "6", "8", "5", "4", "7", "7", "5", "8", "0", "8">>, <<"-", "9", "2", "2", "3", "3", "7", "2", "0", "3", "6", "8", "5", "4", "7", "7", "5", "8", "0", "9">>,
          <<"+", "9", "2", "2", "3", "3", "7", "2", "0", "3", "6", "8", "5", "4", "7", "7", "5", "8", "0", "7">>, <<"+", "9", "2", "2", "3", "3", "7", "2", "0", "3", "6", "8", "5", "4", "7", "7", "5", "8", "0", "8">>,
          <<"0", "0", "0", "0", "9", "2", "2", "3", "3", "7", "2", "0", "3", "6", "8", "5", "4", "7", "7", "5", "8", "0", "7">>, <<"0", "0", "0", "0", "9", "2", "2", "3", "3", "7", "2", "0", "3", "6", "8", "5", "4", "7", "7", "5", "8", "0", "8">>,
          <<"9", "9", "9", "9", "9", "9", "9", "9", "9", "9", "9", "9", "9", "9", "9", "9", "9", "9">>, <<"1", "0", "0", "0", "0", "0", "0", "0", "0", "0", "0", "0", "0", "0", "0", "0", "0", "0", "0">>, <<"1", "0", "0", "0", "0", "0", "0", "0", "0", "0", "0", "0", "0", "0", "0", "0", "0", "0", "0", "0">>,
          <<"9", "9", "9", "9", "9", "9", "9", "9", "9", "9", "9", "9", "9", "9", "9", "9", "9", "9", "9", "9">>, <<"0", "0", "0", "0", "0", "0", "0", "0", "0", "0", "0", "0", "0", "0", "0", "0", "0", "0", "0", "0", "0", "0", "0", "0", "0", "1", "2">>}

\* Environments that configure the single pool "tank" with a candidate ashift.
AshiftEnvs ==
    {("ZPOOL_NAME_0" :> <<"t", "a", "n", "k">>) @@ ("ZPOOL_ASHIFT_0" :> a) : a \in AshiftCandidates}

\* Environments for repeated runs: two pools of the same name, or two pools of
\* different names.
RerunEnvs ==
    {EnvFrom(<<PoolVars({<<"t", "a", "n", "k">>}, {<<"/", "d", "e", "v", "/", "s", "d", "a">>}, {}, {}),
               PoolVars({second}, {<<"/", "d", "e", "v", "/", "s", "d", "b">>}, {<<"m", "i", "r", "r", "o", "r">>}, {})>>, 1) :
        second \in {<<"t", "a", "n", "k">>, <<"d", "a", "t", "a">>}}

----------------------------------------------------------------------------
(* The state machine.                                                      *)

InitWith(envs) ==
    /\ env \in envs
    /\ pc = "start"
    /\ zpoolPath = ""
    /\ configs = <<>>
    /\ limitWarned = FALSE
    /\ idx = 0
    /\ d = 0
    /\ disksToUse = <<>>
    /\ allErrors = <<>>
    /\ exitCode = <<>>
    /\ parsed = FALSE
    /\ started = <<>>
    /\ outcomes = <<>>
    /\ calls = <<>>

Init == InitWith(BatchEnvs)

InitPool == InitWith(PoolEnvs)

InitParse == InitWith(ParseEnvs)

InitNames == InitWith(NameEnvs)

InitRerun == InitWith(RerunEnvs)

InitTypes == InitWith(TypeEnvs)

InitAshifts == InitWith(AshiftEnvs)

\* os.Exit(code), or main returning (code 0).
Exit(code) ==
    /\ pc' = "exit"
    /\ exitCode' = <<code>>

\* createPool returns err to main's loop body, which collects it and moves on.
Return(err) ==
    /\ allErrors' = Collect(allErrors, configs[idx].Name, err)
    /\ outcomes' = Append(outcomes, [pool |-> idx, err |-> err])
    /\ idx' = LoopAdvance(idx, err)
    /\ pc' = "loop"
    /\ d' = 0
    /\ disksToUse' = <<>>

\* provider.LookPath("zpool") and the check of its result.
LookPath ==
    /\ pc = "start"
    /\ \E found \in BOOLEAN :
        /\ calls' = Append(calls, [op |-> "LookPath", pool |-> 0,
                                   arg |-> <<"z", "p", "o", "o", "l">>, res |-> found])
        /\ zpoolPath' = IF found THEN FoundPath ELSE ""
        /\ IF mainAfterLookPath(found) = "exit1"
           THEN Exit(1)
           ELSE pc' = "parse" /\ UNCHANGED exitCode
    /\ UNCHANGED <<env, configs, limitWarned, idx, d, disksToUse, allErrors,
                   parsed, started, outcomes>>

\* configs := parsePoolConfigs() and the check for an empty result.
Parse ==
    /\ pc = "parse"
    /\ parsed' = TRUE
    /\ configs' = parsePoolConfigs(env)
    /\ limitWarned' = LimitWarning(env)
    /\ LET next == mainAfterParse(configs')
       IN  IF next = "loop"
           THEN pc' = "loop" /\ idx' = 1 /\ UNCHANGED exitCode
           ELSE Exit(IF next = "exit0" THEN 0 ELSE 1) /\ UNCHANGED idx
    /\ UNCHANGED <<env, zpoolPath, d, disksToUse, allErrors, started, outcomes, calls>>

\* The loop body up to createPool's first provider call: the validation and
\* the check for an empty disk list.
BeginPool ==
    /\ pc = "loop"
    /\ idx <= Len(configs)
    /\ started' = Append(started, idx)
    /\ LET entry == createPoolEntry(configs[idx])
       IN  IF entry.next = "return" THEN Return(entry.err)
           ELSE /\ pc' = "exists"
                /\ UNCHANGED <<idx, d, disksToUse, allErrors, outcomes>>
    /\ UNCHANGED <<env, zpoolPath, configs, limitWarned, exitCode, parsed, calls>>

\* provider.PoolExists(config.Name, zpoolPath)
PoolExists ==
    /\ pc = "exists"
    /\ \E exists \in BOOLEAN :
        /\ calls' = Append(calls, [op |-> "PoolExists", pool |-> idx,
                                   arg |-> configs[idx].Name, res |-> exists])
        /\ IF createPoolAfterExists(exists) = "return"
           THEN Return(Nil)
           ELSE /\ pc' = "probe"
                /\ d' = 1
                /\ disksToUse' = <<>>
                /\ UNCHANGED <<idx, allErrors, outcomes>>
    /\ UNCHANGED <<env, zpoolPath, configs, limitWarned, exitCode, parsed, started>>

\* provider.IsBlockDevice(disk) for the next listed disk; after the last one,
\* the check for an empty disksToUse.
IsBlockDevice ==
    /\ pc = "probe"
    /\ \E answer \in ProbeAnswers :
        LET disk   == configs[idx].Disks[d]
            usable == disksAfterProbe(disksToUse, disk, answer)
        IN  /\ calls' = Append(calls, [op |-> "IsBlockDevice", pool |-> idx,
                                       arg |-> disk, res |-> answer])
            /\ IF d < Len(configs[idx].Disks)
               THEN /\ d' = d + 1
                    /\ disksToUse' = usable
                    /\ UNCHANGED <<pc, idx, allErrors, outcomes>>
               ELSE IF createPoolAfterProbes(usable).next = "return"
               THEN Return(createPoolAfterProbes(usable).err)
               ELSE /\ pc' = "create"
                    /\ d' = d + 1
                    /\ disksToUse' = usable
                    /\ UNCHANGED <<idx, allErrors, outcomes>>
    /\ UNCHANGED <<env, zpoolPath, configs, limitWarned, exitCode, parsed, started>>

\* provider.CreatePool(zpoolPath, args)
CreatePool ==
    /\ pc = "create"
    /\ \E answer \in CreateAnswers :
        /\ calls' = Append(calls, [op |-> "CreatePool", pool |-> idx,
                                   arg |-> CreateArgs(configs[idx], disksToUse),
                                   res |-> answer])
        /\ IF answer.failed
           THEN Return(ErrCreateFailed(answer.errText, answer.output))
           ELSE /\ pc' = "status"
                /\ UNCHANGED <<idx, d, disksToUse, allErrors, outcomes>>
    /\ UNCHANGED <<env, zpoolPath, configs, limitWarned, exitCode, parsed, started>>

\* provider.GetPoolStatus(config.Name, zpoolPath): its result is only logged.
GetPoolStatus ==
    /\ pc = "status"
    /\ \E failed \in BOOLEAN :
        /\ calls' = Append(calls, [op |-> "GetPoolStatus", pool |-> idx,
                                   arg |-> configs[idx].Name, res |-> ~failed])
        /\ Return(createPoolAfterStatus(~failed))
    /\ UNCHANGED <<env, zpoolPath, configs, limitWarned, exitCode, parsed, started>>

\* After the loop: exit 1 when errors were collected, else return from main.
Finish ==
    /\ pc = "loop"
    /\ idx > Len(configs)
    /\ Exit(ExitStatus(allErrors))
    /\ UNCHANGED <<env, zpoolPath, configs, limitWarned, idx, d, disksToUse,
                   allErrors, parsed, started, outcomes, calls>>

\* The service is started again: a new process over the same environment and
\* against the same pool tool (the history of provider calls goes on).
Restart ==
    /\ pc = "exit"
    /\ Cardinality({k \in 1..Len(calls) : calls[k].op = "LookPath"}) < MaxRuns
    /\ pc' = "start"
    /\ zpoolPath' = ""
    /\ configs' = <<>>
    /\ limitWarned' = FALSE
    /\ idx' = 0
    /\ d' = 0
    /\ disksToUse' = <<>>
    /\ allErrors' = <<>>
    /\ exitCode' = <<>>
    /\ parsed' = FALSE
    /\ started' = <<>>
    /\ outcomes' = <<>>
    /\ UNCHANGED <<env, calls>>

Next ==
    \/ LookPath
    \/ Parse
    \/ BeginPool
    \/ PoolExists
    \/ IsBlockDevice
    \/ CreatePool
    \/ GetPoolStatus
    \/ Finish

\* The parser alone: main up to the end of parsePoolConfigs.
NextParse ==
    \/ LookPath
    \/ Parse

\* A run over a pool without disks: main, and createPool up to its return
\* before the first provider call.
NextNames ==
    \/ LookPath
    \/ Parse
    \/ BeginPool
    \/ Finish

\* Runs of the service one after another.
NextRerun ==
    \/ LookPath
    \/ Parse
    \/ BeginPool
    \/ PoolExists
    \/ IsBlockDevice
    \/ CreatePool
    \/ GetPoolStatus
    \/ Finish
    \/ Restart

\* A whole run over a batch environment.
Spec == Init /\ [][Next]_vars

\* A whole run over a batch environment in which the process keeps running
\* and every external call returns: a step that can be taken is taken.
SpecLive == Init /\ [][Next]_vars /\ WF_vars(Next)

\* A whole run over a single-pool environment.
SpecPool == InitPool /\ [][Next]_vars

\* The parser over environments of up to maxPools + ExtraIdx indices.
SpecParse == InitParse /\ [][NextParse]_vars

\* A whole run over a pool that is configured by a candidate name alone.
SpecNames == InitNames /\ [][NextNames]_vars

\* Up to MaxRuns runs over the same two-pool environment.
SpecRerun == InitRerun /\ [][NextRerun]_vars

\* A whole run over a pool that is configured by its name and a candidate type.
SpecTypes == InitTypes /\ [][NextNames]_vars

\* A whole run over a pool that is configured by its name and a candidate ashift.
SpecAshifts == InitAshifts /\ [][NextNames]_vars

----------------------------------------------------------------------------
(* Properties.                                                             *)

\* sub occurs in s as a contiguous run of characters.
Contains(s, sub) ==
    \E i \in 1..(Len(s) - Len(sub) + 1) : SubSeq(s, i, i + Len(sub) - 1) = sub

\* The positions of `calls` that hold a call of operation op.
CallsOf(op) == {k \in 1..Len(calls) : calls[k].op = op}

\* The provider calls made for the configuration at position j.
CallsForPool(j) == {k \in 1..Len(calls) : calls[k].pool = j}

ToolFound == \E k \in CallsOf("LookPath") : calls[k].res = TRUE

ToolMissing == \E k \in CallsOf("LookPath") : calls[k].res = FALSE

\* The positions of the createPool calls that returned an error, ascending.
FailedPools ==
    SelectSeq([j \in 1..Len(outcomes) |-> j], LAMBDA j : outcomes[j].err.isErr)

\* C1: the batch has no early abort.  createPool is called for the parsed
\* configurations one after another in parse order, each exactly once, the
\* next one only after the previous call returned and whatever it returned;
\* when a run over a non-empty configuration list exits, createPool has been
\* called for every configuration.
C1_NoEarlyAbort ==
    /\ Len(started) <= Len(configs)
    /\ \A j \in 1..Len(started) : started[j] = j
    /\ Len(outcomes) <= Len(started)
    /\ Len(started) <= Len(outcomes) + 1
    /\ (pc = "exit" /\ Len(configs) > 0) => Len(started) = Len(configs)

\* A run of three configurations whose first pool failed and whose second and
\* third were attempted all the same.
C1_Witness ==
    /\ pc = "exit"
    /\ Len(configs) = 3
    /\ started = <<1, 2, 3>>
    /\ outcomes[1].err.isErr

\* C2: with the tool found and at least one configuration parsed, the process
\* exits only after createPool has returned for every configuration, with
\* code 1 if at least one call returned an error and with code 0 otherwise.
C2_ExitCodeAfterBatch ==
    (exitCode # <<>> /\ Len(configs) > 0) =>
        /\ ToolFound
        /\ Len(outcomes) = Len(configs)
        /\ exitCode = IF \E j \in 1..Len(outcomes) : outcomes[j].err.isErr
                      THEN <<1>> ELSE <<0>>

\* A run that exits 1 because only its last pool failed.
C2_Witness ==
    /\ exitCode = <<1>>
    /\ Len(configs) = 3
    /\ ~outcomes[1].err.isErr
    /\ ~outcomes[2].err.isErr
    /\ outcomes[3].err.isErr

\* C3: creation is idempotent per pool.  For a configuration with a valid
\* name, type and ashift and a non-empty disk list, once PoolExists has
\* answered true createPool has returned nil, and no IsBlockDevice, CreatePool
\* or GetPoolStatus call is ever made for that pool.
C3_ExistingPoolIsSkipped ==
    \A k \in CallsOf("PoolExists") :
        LET j == calls[k].pool
        IN  (/\ calls[k].res = TRUE
             /\ isValidZpoolName(configs[j].Name)
             /\ isValidZpoolType(configs[j].Type)
             /\ isValidAshift(configs[j].Ashift)
             /\ Len(configs[j].Disks) > 0)
            => /\ Len(outcomes) >= j
               /\ outcomes[j].err = Nil
               /\ \A m \in CallsForPool(j) :
                      calls[m].op \notin {"IsBlockDevice", "CreatePool", "GetPoolStatus"}

\* A finished run whose pool existed already.
C3_Witness ==
    /\ pc = "exit"
    /\ exitCode = <<0>>
    /\ Len(configs) = 1
    /\ Len(configs[1].Disks) = MaxDisks
    /\ \E k \in CallsOf("PoolExists") : calls[k].res = TRUE

\* Every answer PoolExists has given so far is true.
AllPoolsExist == \A k \in CallsOf("PoolExists") : calls[k].res = TRUE

EscapedChars == {"\"", "\\", "\t", "\n", "\r", "\f"}

NeedsEscape(s) == \E i \in 1..Len(s) : s[i] \in EscapedChars

\* C5 as stated: the collected errors are one entry per failed createPool
\* call, in parse order, and each entry's message contains the name of its
\* pool.
C5_AsStated ==
    /\ Len(allErrors) = Len(FailedPools)
    /\ \A k \in 1..Len(FailedPools) :
           Contains(allErrors[k], configs[FailedPools[k]].Name)

\* C5, amended: the collected errors are one entry per failed createPool call
\* and none for the calls that succeeded, in parse order; each entry wraps the
\* error its call returned and carries the pool's name in Go-quoted (%q) form,
\* which holds the name verbatim whenever the name has no character that %q
\* escapes (every name that passes validation is such a name).
C5_ErrorsNamePools ==
    /\ Len(allErrors) = Len(FailedPools)
    /\ \A k \in 1..Len(FailedPools) :
           LET j == FailedPools[k]
           IN  /\ Contains(allErrors[k], Quote(configs[j].Name))
               /\ Contains(allErrors[k], outcomes[j].err.msg)
               /\ ~NeedsEscape(configs[j].Name)
                      => Contains(allErrors[k], configs[j].Name)
    /\ \A j \in 1..Len(configs) :
           isValidZpoolName(configs[j].Name) => ~NeedsEscape(configs[j].Name)

\* Three configurations of which only the second fails, in CreatePool: one
\* collected error, which names the second pool.
C5_Witness ==
    /\ pc = "exit"
    /\ Len(configs) = 3
    /\ FailedPools = <<2>>
    /\ \E k \in CallsOf("CreatePool") : calls[k].pool = 2 /\ calls[k].res.failed
    /\ Len(allErrors) = 1
    /\ Contains(allErrors[1], configs[2].Name)

\* C6: when LookPath fails the process exits with code 1 at once, in every
\* environment: parsePoolConfigs is not called and no other provider
\* operation is invoked.
C6_MissingToolIsFatal ==
    ToolMissing =>
        /\ pc = "exit"
        /\ exitCode = <<1>>
        /\ ~parsed
        /\ configs = <<>>
        /\ started = <<>>
        /\ Len(calls) = 1

\* The tool is missing and the environment configures no pool at all.
C6_Witness ==
    /\ ToolMissing
    /\ exitCode = <<1>>
    /\ DOMAIN env = {}

\* C7: parsePoolConfigs yields no configuration exactly when ZPOOL_NAME_0 is
\* unset or empty, and the process then exits with code 0 at once: no
\* existence check, disk probe, create or status operation is invoked.
C7_NothingToDo ==
    parsed =>
        /\ Len(configs) = 0 <=> Getenv(env, "ZPOOL_NAME_0") = <<>>
        /\ Len(configs) = 0 =>
               /\ pc = "exit"
               /\ exitCode = <<0>>
               /\ started = <<>>
               /\ \A k \in 1..Len(calls) : calls[k].op = "LookPath"

\* ZPOOL_NAME_0 is set to the empty string, a pool is configured at index 1,
\* and the run has ended with nothing to do.
C7_Witness ==
    /\ parsed
    /\ configs = <<>>
    /\ exitCode = <<0>>
    /\ "ZPOOL_NAME_0" \in DOMAIN env
    /\ Getenv(env, "ZPOOL_NAME_1") # <<>>

NameAt(e, i) == Getenv(e, Key("ZPOOL_NAME_", i))

\* The smallest index in 0..maxPools whose name is unset or empty, capped at
\* maxPools.
FirstGap(e) ==
    CHOOSE k \in 0..maxPools :
        /\ k = maxPools \/ NameAt(e, k) = <<>>
        /\ \A i \in 0..(k - 1) : NameAt(e, i) # <<>>

\* C8: parsing stops at the first gap.  parsePoolConfigs returns the
\* configurations of the indices 0 .. k-1 in ascending order, k being the
\* smallest index whose ZPOOL_NAME_<k> is unset or empty (at most maxPools);
\* what is set beyond the gap is ignored.
C8_ParseStopsAtFirstGap ==
    parsed =>
        LET k == FirstGap(env)
        IN  /\ Len(configs) = k
            /\ \A j \in 1..k : configs[j].Name = env[Key("ZPOOL_NAME_", j - 1)]

\* ZPOOL_NAME_0 and ZPOOL_NAME_2 are set, ZPOOL_NAME_1 is not: one
\* configuration.
C8_Witness ==
    /\ parsed
    /\ Len(configs) = 1
    /\ "ZPOOL_NAME_1" \notin DOMAIN env
    /\ NameAt(env, 0) # <<>>
    /\ NameAt(env, 2) # <<>>

\* C9: parsePoolConfigs never returns more than maxPools configurations; with
\* ZPOOL_NAME_0 .. ZPOOL_NAME_<maxPools> all set it returns exactly maxPools,
\* the last being the pool of index maxPools - 1.
C9_ParseIsCapped ==
    parsed =>
        /\ Len(configs) <= maxPools
        /\ (\A i \in 0..maxPools : NameAt(env, i) # <<>>) =>
               /\ Len(configs) = maxPools
               /\ configs[maxPools].Name = NameAt(env, maxPools - 1)

\* Every index from 0 to maxPools is configured and the parser has run.
C9_Witness ==
    /\ parsed
    /\ \A i \in 0..maxPools : NameAt(env, i) # <<>>
    /\ Len(configs) = maxPools

\* The first positions of the maximal runs of non-space characters of s.
RunStarts(s) ==
    {i \in 1..Len(s) : s[i] \notin asciiSpace /\ (i = 1 \/ s[i - 1] \in asciiSpace)}

\* The last position of the run of non-space characters that starts at i.
RunEnd(s, i) ==
    CHOOSE k \in i..Len(s) :
        /\ \A m \in i..k : s[m] \notin asciiSpace
        /\ k = Len(s) \/ s[k + 1] \in asciiSpace

\* toks are the white-space separated tokens of s, in order.
IsTokenisation(s, toks) ==
    /\ Len(toks) = Cardinality(RunStarts(s))
    /\ \A i \in RunStarts(s) :
           toks[Cardinality({m \in RunStarts(s) : m <= i})] = SubSeq(s, i, RunEnd(s, i))

Ashifts == [j \in 1..Len(configs) |-> configs[j].Ashift]

ProbesOf(j) == SelectSeq(calls, LAMBDA c : c.op = "IsBlockDevice" /\ c.pool = j)

\* The disks probed for configuration j, in probe order.
ProbedDisks(j) == [i \in 1..Len(ProbesOf(j)) |-> ProbesOf(j)[i].arg]

\* The disks for which IsBlockDevice returned (true, nil), in probe order.
BlockDisks(j) ==
    LET hits == SelectSeq(ProbesOf(j), LAMBDA c : c.res = "block")
    IN  [i \in 1..Len(hits) |-> hits[i].arg]

\* Every listed disk of configuration j has been probed.
AllProbed(j) ==
    /\ Len(configs[j].Disks) > 0
    /\ Len(ProbesOf(j)) = Len(configs[j].Disks)

CreateCallsFor(j) == {k \in CallsOf("CreatePool") : calls[k].pool = j}

StatusCallsFor(j) == {k \in CallsOf("GetPoolStatus") : calls[k].pool = j}

\* The name, the type and the ashift of the configuration are all valid.
ValidConfig(config) ==
    /\ isValidZpoolName(config.Name)
    /\ isValidZpoolType(config.Type)
    /\ isValidAshift(config.Ashift)

\* C12: disk filtering.  The listed disks are probed in list order, and the
\* disk paths at the end of CreatePool's argument list are exactly those for
\* which IsBlockDevice returned (true, nil), in that order.  A disk whose
\* probe returned false or an error is dropped and does not fail the pool:
\* once all disks are probed and at least one is a block device, createPool
\* goes on to CreatePool.
C12_DiskFiltering ==
    /\ \A k \in CallsOf("CreatePool") :
           LET j      == calls[k].pool
               args   == calls[k].arg
               nFixed == IF configs[j].Type # <<>> THEN 7 ELSE 6
           IN  /\ ProbedDisks(j) = configs[j].Disks
               /\ SubSeq(args, nFixed + 1, Len(args)) = BlockDisks(j)
    /\ \A j \in 1..Len(started) :
           /\ \A i \in 1..Len(ProbedDisks(j)) : ProbedDisks(j)[i] = configs[j].Disks[i]
           /\ (AllProbed(j) /\ BlockDisks(j) # <<>>) =>
                  /\ (pc = "create" /\ idx = j) \/ CreateCallsFor(j) # {}
                  /\ Len(outcomes) >= j => outcomes[j].err # ErrNoUsableDisks

\* Three disks are listed, the second one's probe returned an error, and
\* CreatePool was called with the first and the third.
C12_Witness ==
    \E k \in CallsOf("CreatePool") :
        LET j == calls[k].pool
        IN  /\ Len(configs[j].Disks) = 3
            /\ ProbesOf(j)[2].res = "error"
            /\ BlockDisks(j) = <<configs[j].Disks[1], configs[j].Disks[3]>>
            /\ calls[k].arg[Len(calls[k].arg)] = configs[j].Disks[3]

\* C13: when every listed disk of a valid configuration whose pool does not
\* exist has been probed and none is a block device, createPool has returned
\* the "no usable block devices" error, CreatePool is never called for that
\* pool, and the run exits with code 1.
C13_NoUsableDisksFails ==
    \A j \in 1..Len(started) :
        (AllProbed(j) /\ BlockDisks(j) = <<>>) =>
            /\ ValidConfig(configs[j])
            /\ \E k \in CallsOf("PoolExists") : calls[k].pool = j /\ calls[k].res = FALSE
            /\ Len(outcomes) >= j
            /\ outcomes[j].err.isErr
            /\ outcomes[j].err.msg = <<"n", "o", " ", "u", "s", "a", "b", "l", "e", " ", "b", "l", "o", "c", "k", " ", "d", "e", "v", "i", "c", "e", "s", " ", "f", "o", "u", "n", "d", " ", "f", "r", "o", "m", " ", "t", "h", "e", " ", "p", "r", "o", "v", "i", "d", "e", "d", " ", "l", "i", "s", "t">>
            /\ CreateCallsFor(j) = {}
            /\ pc = "exit" => exitCode = <<1>>

\* A finished run whose three disks probed as "not a block device", as an
\* error and as "not a block device": exit code 1 without a CreatePool call.
C13_Witness ==
    /\ pc = "exit"
    /\ exitCode = <<1>>
    /\ Len(ProbesOf(1)) = 3
    /\ ProbesOf(1)[1].res = "notblock"
    /\ ProbesOf(1)[2].res = "error"
    /\ ProbesOf(1)[3].res = "notblock"
    /\ CallsOf("CreatePool") = {}

\* C14: whenever CreatePool is called its argument list is "create", "-m",
\* "/var/mnt/" + name, "-o", "ashift=" + ashift, name, then the type if and
\* only if it is non-empty, then the usable disks in order, and nothing else
\* (no "-f"); name, type and ashift are the configuration's values as read
\* from the environment, and they are valid.
C14_CreateArguments ==
    \A k \in CallsOf("CreatePool") :
        LET j      == calls[k].pool
            config == configs[j]
            args   == calls[k].arg
        IN  /\ Len(args) >= 6
            /\ args[1] = <<"c", "r", "e", "a", "t", "e">>
            /\ args[2] = <<"-", "m">>
            /\ args[3] = <<"/", "v", "a", "r", "/", "m", "n", "t", "/">> \o config.Name
            /\ args[4] = <<"-", "o">>
            /\ args[5] = <<"a", "s", "h", "i", "f", "t", "=">> \o config.Ashift
            /\ args[6] = config.Name
            /\ IF config.Type = <<>>
               THEN SubSeq(args, 7, Len(args)) = BlockDisks(j)
               ELSE /\ Len(args) >= 7
                    /\ args[7] = config.Type
                    /\ SubSeq(args, 8, Len(args)) = BlockDisks(j)
            /\ \A i \in 1..Len(args) : args[i] # <<"-", "f">>
            /\ ValidConfig(config)
            /\ config.Name = Getenv(env, Key("ZPOOL_NAME_", j - 1))
            /\ config.Type = Getenv(env, Key("ZPOOL_TYPE_", j - 1))
            /\ Key("ZPOOL_ASHIFT_", j - 1) \in DOMAIN env
                   => config.Ashift = env[Key("ZPOOL_ASHIFT_", j - 1)]

\* CreatePool is called for the mirror "tank" with ashift 13 and two disks.
C14_Witness ==
    \E k \in CallsOf("CreatePool") :
        calls[k].arg = <<<<"c", "r", "e", "a", "t", "e">>, <<"-", "m">>, <<"/", "v", "a", "r", "/", "m", "n", "t", "/", "t", "a", "n", "k">>, <<"-", "o">>, <<"a", "s", "h", "i", "f", "t", "=", "1", "3">>,
                         <<"t", "a", "n", "k">>, <<"m", "i", "r", "r", "o", "r">>, <<"/", "d", "e", "v", "/", "s", "d", "a">>, <<"/", "d", "e", "v", "/", "s", "d", "b">>>>

\* C15: when CreatePool returns an error, createPool has returned an error
\* whose message carries the command's combined output, and GetPoolStatus is
\* not called for that pool.
C15_CreateFailure ==
    \A k \in CallsOf("CreatePool") :
        LET j == calls[k].pool
        IN  calls[k].res.failed =>
                /\ Len(outcomes) >= j
                /\ outcomes[j].err.isErr
                /\ Contains(outcomes[j].err.msg, calls[k].res.output)
                /\ Contains(outcomes[j].err.msg, calls[k].res.errText)
                /\ StatusCallsFor(j) = {}

\* CreatePool failed with the output "busy": the pool's error carries it.
C15_Witness ==
    /\ pc = "exit"
    /\ \E k \in CallsOf("CreatePool") :
           /\ calls[k].res.failed
           /\ calls[k].res.output = <<"b", "u", "s", "y">>
           /\ Contains(outcomes[calls[k].pool].err.msg, <<"b", "u", "s", "y">>)
    /\ CallsOf("GetPoolStatus") = {}

\* C16: a status-query failure never fails a pool.  Whenever CreatePool
\* returned without error, GetPoolStatus is called next and createPool returns
\* nil whatever GetPoolStatus returned; an exit code of 1 is then due to
\* another pool.
C16_StatusNeverFails ==
    \A k \in CallsOf("CreatePool") :
        LET j == calls[k].pool
        IN  ~calls[k].res.failed =>
                /\ (pc = "status" /\ idx = j) \/ StatusCallsFor(j) # {}
                /\ StatusCallsFor(j) # {} => Len(outcomes) >= j
                /\ Len(outcomes) >= j => outcomes[j].err = Nil
                /\ exitCode = <<1>> =>
                       \E i \in 1..Len(outcomes) : i # j /\ outcomes[i].err.isErr

\* The pool was created, its status query failed, and the run exited with 0.
C16_Witness ==
    /\ pc = "exit"
    /\ exitCode = <<0>>
    /\ \E k \in CallsOf("CreatePool") : ~calls[k].res.failed
    /\ \E k \in CallsOf("GetPoolStatus") : calls[k].res = FALSE

\* C18: validation comes first.  When the name, the type or the ashift of a
\* configuration is invalid, createPool has returned an error as soon as it
\* was called and no provider operation is ever invoked for that pool, also
\* when the disk list is empty; the run then exits with code 1.
C18_ValidationFirst ==
    \A j \in 1..Len(started) :
        ~ValidConfig(configs[j]) =>
            /\ Len(outcomes) >= j
            /\ outcomes[j].err.isErr
            /\ Contains(outcomes[j].err.msg, <<"i", "n", "v", "a", "l", "i", "d", " ">>)
            /\ CallsForPool(j) = {}
            /\ pc = "exit" => exitCode = <<1>>

\* A configuration with a valid name, the invalid type raid0 and no disks has
\* failed, and the run has exited with code 1 after LookPath alone.
C18_Witness ==
    /\ pc = "exit"
    /\ exitCode = <<1>>
    /\ Len(configs) = 1
    /\ isValidZpoolName(configs[1].Name)
    /\ configs[1].Type = <<"r", "a", "i", "d", "0">>
    /\ configs[1].Disks = <<>>
    /\ Len(calls) = 1

\* C17: validation is deferred to creation and is per pool.  parsePoolConfigs
\* returns the configuration of every index before the first gap, valid or
\* not; createPool is called for each of them; and a call fails exactly when
\* its own configuration is invalid, none of its own disks is a block device
\* or its own CreatePool failed, so an invalid configuration fails its own
\* pool only.
C17_ValidationPerPool ==
    /\ parsed =>
           /\ Len(configs) = FirstGap(env)
           /\ \A j \in 1..Len(configs) : configs[j].Name = NameAt(env, j - 1)
    /\ (pc = "exit" /\ Len(configs) > 0) => Len(started) = Len(configs)
    /\ \A j \in 1..Len(outcomes) :
           /\ ~ValidConfig(configs[j]) => outcomes[j].err.isErr
           /\ outcomes[j].err.isErr <=>
                  \/ ~ValidConfig(configs[j])
                  \/ AllProbed(j) /\ BlockDisks(j) = <<>>
                  \/ \E k \in CreateCallsFor(j) : calls[k].res.failed

\* The first of three configurations has an invalid name; the second and the
\* third were parsed and created, and only the first failed.
C17_Witness ==
    /\ pc = "exit"
    /\ Len(configs) = 3
    /\ ~isValidZpoolName(configs[1].Name)
    /\ FailedPools = <<1>>
    /\ \E k \in CreateCallsFor(2) : ~calls[k].res.failed
    /\ \E k \in CreateCallsFor(3) : ~calls[k].res.failed

\* The configuration has a valid name, type and ashift and lists no disk.
ValidWithoutDisks(config) == ValidConfig(config) /\ config.Disks = <<>>

\* C19: an empty disk list is a successful no-op.  For a configuration with a
\* valid name, type and ashift and no disks, createPool has returned nil as
\* soon as it was called and no provider operation is ever invoked for it; a
\* run over such configurations only exits with code 0 after LookPath alone.
C19_NoDisksIsNoOp ==
    /\ \A j \in 1..Len(started) :
           ValidWithoutDisks(configs[j]) =>
               /\ Len(outcomes) >= j
               /\ outcomes[j].err = Nil
               /\ CallsForPool(j) = {}
    /\ (/\ pc = "exit"
        /\ ToolFound
        /\ \A j \in 1..Len(configs) : ValidWithoutDisks(configs[j]))
       => /\ exitCode = <<0>>
          /\ Len(calls) = 1

\* A finished run over three valid configurations without disks.
C19_Witness ==
    /\ pc = "exit"
    /\ exitCode = <<0>>
    /\ Len(configs) = 3
    /\ \A j \in 1..3 : ValidWithoutDisks(configs[j])
    /\ Len(outcomes) = 3
    /\ Len(calls) = 1

\* The characters the name pattern allows after the first one.
NameChars == LowerLetters \cup UpperLetters \cup Digits \cup {"_", ".", ":", " ", "-"}

\* The three conditions of C20 on a name.
NameOk(name) ==
    /\ Len(name) >= 1
    /\ name[1] \in LowerLetters \cup UpperLetters
    /\ \A i \in 1..Len(name) : name[i] \in NameChars
    /\ name \notin {<<"m", "i", "r", "r", "o", "r">>, <<"r", "a", "i", "d", "z">>, <<"d", "r", "a", "i", "d">>, <<"s", "p", "a", "r", "e">>, <<"l", "o", "g">>}
    /\ \A w \in {<<"m", "i", "r", "r", "o", "r">>, <<"r", "a", "i", "d", "z">>, <<"d", "r", "a", "i", "d">>, <<"s", "p", "a", "r", "e">>} :
           \E i \in 1..Len(w) : i > Len(name) \/ name[i] # w[i]

\* createPool rejected the name of configuration j.
NameRejected(j) ==
    /\ outcomes[j].err.isErr
    /\ HasPrefix(outcomes[j].err.msg, <<"i", "n", "v", "a", "l", "i", "d", " ", "n", "a", "m", "e", ":", " ">>)

\* C20: isValidZpoolName accepts a name if and only if it matches
\* ^[A-Za-z][A-Za-z0-9_.: -]*$, is none of mirror, raidz, draid, spare, log
\* and does not begin with mirror, raidz, draid or spare.  So the empty name,
\* every name that starts with '-' or '.', every name that contains one of
\* !@#$%^&*()+=[]{}|\;"'<>,?/ and the names "raidz-my-pool" and "spare1" are
\* rejected.
C20_NameValidation ==
    /\ ~isValidZpoolName(<<>>)
    /\ \A j \in 1..Len(outcomes) :
           LET name == configs[j].Name
           IN  /\ (~NameRejected(j)) <=> NameOk(name)
               /\ NameRejected(j) <=> ~isValidZpoolName(name)
               /\ name[1] \in {"-", "."} => NameRejected(j)
               /\ (\E i \in 1..Len(name) : name[i] \in SpecialChars) => NameRejected(j)
               /\ name \in {<<"r", "a", "i", "d", "z", "-", "m", "y", "-", "p", "o", "o", "l">>, <<"s", "p", "a", "r", "e", "1">>} => NameRejected(j)

\* The name "raidz-my-pool" was rejected and the run exited with code 1.
C20_Witness ==
    /\ pc = "exit"
    /\ exitCode = <<1>>
    /\ Len(outcomes) = 1
    /\ configs[1].Name = <<"r", "a", "i", "d", "z", "-", "m", "y", "-", "p", "o", "o", "l">>
    /\ NameRejected(1)

\* The ten strings of C21.
TypeOk(poolType) ==
    poolType \in {<<>>, <<"m", "i", "r", "r", "o", "r">>, <<"r", "a", "i", "d", "z">>, <<"r", "a", "i", "d", "z", "1">>, <<"r", "a", "i", "d", "z", "2">>, <<"r", "a", "i", "d", "z", "3">>,
                  <<"d", "r", "a", "i", "d">>, <<"d", "r", "a", "i", "d", "1">>, <<"d", "r", "a", "i", "d", "2">>, <<"d", "r", "a", "i", "d", "3">>}

\* createPool rejected the type of configuration j.
TypeRejected(j) ==
    /\ outcomes[j].err.isErr
    /\ HasPrefix(outcomes[j].err.msg, <<"i", "n", "v", "a", "l", "i", "d", " ", "t", "y", "p", "e", ":", " ">>)

\* C21: isValidZpoolType accepts exactly the empty string and mirror, raidz,
\* raidz1, raidz2, raidz3, draid, draid1, draid2, draid3, compared exactly and
\* with case; every other string, such as "raid0" and "miror", is rejected.
C21_TypeValidation ==
    \A j \in 1..Len(outcomes) :
        LET poolType == configs[j].Type
        IN  isValidZpoolName(configs[j].Name) =>
                /\ (~TypeRejected(j)) <=> TypeOk(poolType)
                /\ TypeRejected(j) <=> ~isValidZpoolType(poolType)
                /\ poolType \in {<<"r", "a", "i", "d", "0">>, <<"m", "i", "r", "o", "r">>} => TypeRejected(j)

\* The type "miror" was rejected and the run exited with code 1.
C21_Witness ==
    /\ pc = "exit"
    /\ exitCode = <<1>>
    /\ Len(outcomes) = 1
    /\ configs[1].Type = <<"m", "i", "r", "o", "r">>
    /\ TypeRejected(1)

\* An optional sign followed by one or more decimal digits.
IsDecimalInteger(s) ==
    \E sign \in {<<>>, <<"+">>, <<"-">>} :
        /\ Len(s) > Len(sign)
        /\ SubSeq(s, 1, Len(sign)) = sign
        /\ \A i \in (Len(sign) + 1)..Len(s) :
               s[i] \in {"0", "1", "2", "3", "4", "5", "6", "7", "8", "9"}

\* The digits of a decimal integer after its sign and leading zeros.
Magnitude(s) == StripZeros(IF s[1] \in {"+", "-"} THEN Tail(s) ELSE s)

\* The decimal integer lies in -2^63 .. 2^63 - 1.
FitsInt64(s) ==
    LET m     == Magnitude(s)
        limit == IF s[1] = "-" THEN <<"9", "2", "2", "3", "3", "7", "2", "0", "3", "6", "8", "5", "4", "7", "7", "5", "8", "0", "8">> ELSE <<"9", "2", "2", "3", "3", "7", "2", "0", "3", "6", "8", "5", "4", "7", "7", "5", "8", "0", "7">>
    IN  \/ Len(m) < 19
        \/ /\ Len(m) = 19
           /\ \A i \in 1..19 :
                  (\A k \in 1..(i - 1) : m[k] = limit[k])
                  => DigitVal(m[i]) <= DigitVal(limit[i])

\* createPool rejected the ashift of configuration j.
AshiftRejected(j) ==
    /\ outcomes[j].err.isErr
    /\ HasPrefix(outcomes[j].err.msg, <<"i", "n", "v", "a", "l", "i", "d", " ", "a", "s", "h", "i", "f", "t", " ", "v", "a", "l", "u", "e", ":", " ">>)

\* The configurations whose name and type are valid and whose createPool call
\* has returned: the ones whose ashift was validated.
AshiftChecked ==
    {j \in 1..Len(outcomes) :
        isValidZpoolName(configs[j].Name) /\ isValidZpoolType(configs[j].Type)}

\* C22 as stated: isValidAshift accepts every base-10 integer string, "0" and
\* negative values included, whatever its value, and rejects every other
\* string ("12.5", "twelve", "").
C22_AsStated ==
    \A j \in AshiftChecked :
        (~AshiftRejected(j)) <=> IsDecimalInteger(configs[j].Ashift)

\* C22, amended: isValidAshift accepts exactly the strings made of an optional
\* sign and decimal digits whose value fits a signed 64-bit integer, "0" and
\* negative values included; there is no other range check.  Every other
\* string is rejected: the empty string, "12.5", "twelve", and the integers
\* below -2^63 or above 2^63 - 1.
C22_AshiftValidation ==
    \A j \in AshiftChecked :
        LET ashift == configs[j].Ashift
        IN  /\ (~AshiftRejected(j)) <=> (IsDecimalInteger(ashift) /\ FitsInt64(ashift))
            /\ AshiftRejected(j) <=> ~isValidAshift(ashift)
            /\ ashift \in {<<"0">>, <<"-", "1">>, <<"-", "1", "2">>, <<"9", "9", "9", "9", "9", "9", "9", "9", "9", "9", "9", "9", "9", "9", "9", "9", "9", "9">>} => ~AshiftRejected(j)
            /\ ashift \in {<<>>, <<"1", "2", ".", "5">>, <<"t", "w", "e", "l", "v", "e">>, <<"9", "2", "2", "3", "3", "7", "2", "0", "3", "6", "8", "5", "4", "7", "7", "5", "8", "0", "8">>}
                   => AshiftRejected(j)

\* The ashift "-12" was accepted: the run over a pool without disks exited 0.
C22_Witness ==
    /\ pc = "exit"
    /\ exitCode = <<0>>
    /\ Len(outcomes) = 1
    /\ configs[1].Ashift = <<"-", "1", "2">>
    /\ outcomes[1].err = Nil

\* C23 as stated: the "maximum number of pools" warning is logged only when
\* parsing stopped at the limit, that is only when every index 0 .. 41 is
\* configured and index 42 is configured too; never when parsing stopped
\* earlier at a gap.
C23_AsStated ==
    limitWarned =>
        /\ \A i \in 0..maxPools : NameAt(env, i) # <<>>
        /\ Len(configs) = maxPools

\* The positions of the provider calls made for configuration j, by operation.
ExistsCallsFor(j) == {k \in CallsOf("PoolExists") : calls[k].pool = j}

\* C24: no retries.  LookPath is called exactly once in a run; for each
\* configuration PoolExists, CreatePool and GetPoolStatus are called at most
\* once each, and IsBlockDevice once per listed disk, in list order, when
\* probing is reached; nothing is called again for a pool after its
\* CreatePool failed or after createPool returned an error.
C24_NoRetries ==
    /\ Cardinality(CallsOf("LookPath")) = IF pc = "start" THEN 0 ELSE 1
    /\ \A j \in 1..Len(started) : started[j] = j
    /\ \A j \in 1..Len(configs) :
           /\ Cardinality(ExistsCallsFor(j)) <= 1
           /\ Cardinality(CreateCallsFor(j)) <= 1
           /\ Cardinality(StatusCallsFor(j)) <= 1
           /\ Len(ProbesOf(j)) <= Len(configs[j].Disks)
           /\ \A i \in 1..Len(ProbesOf(j)) : ProbedDisks(j)[i] = configs[j].Disks[i]
           /\ (Len(outcomes) >= j /\ Len(ProbesOf(j)) > 0)
                  => Len(ProbesOf(j)) = Len(configs[j].Disks)
           /\ \A k \in CreateCallsFor(j) :
                  calls[k].res.failed => \A m \in CallsForPool(j) : m <= k

\* A finished run over a pool with three disks: one existence check, three
\* probes of which the first returned an error, and one create, which failed.
C24_Witness ==
    /\ pc = "exit"
    /\ exitCode = <<1>>
    /\ Len(configs) = 1
    /\ Len(ProbesOf(1)) = 3
    /\ ProbesOf(1)[1].res = "error"
    /\ \E k \in CreateCallsFor(1) : calls[k].res.failed
    /\ Cardinality(CallsForPool(1)) = 5

\* The provider calls made for configuration j, in call order.
OwnCalls(j) == SelectSeq(calls, LAMBDA c : c.pool = j)

\* The operations of the provider calls made for configuration j.
OpsOf(j) == [i \in 1..Len(OwnCalls(j)) |-> OwnCalls(j)[i].op]

\* PoolExists, one IsBlockDevice per listed disk, CreatePool, GetPoolStatus.
FullSequence(config) ==
    <<"PoolExists">> \o [i \in 1..Len(config.Disks) |-> "IsBlockDevice"]
    \o <<"CreatePool", "GetPoolStatus">>

\* C25: the provider calls of each configuration are a prefix of PoolExists,
\* IsBlockDevice for each listed disk in list order, CreatePool,
\* GetPoolStatus.  IsBlockDevice is called only after PoolExists returned
\* false, CreatePool only after every disk was probed and at least one is a
\* block device, GetPoolStatus only after CreatePool returned without error.
C25_CallOrder ==
    \A j \in 1..Len(configs) :
        LET own == OwnCalls(j)
        IN  /\ Len(own) <= Len(FullSequence(configs[j]))
            /\ OpsOf(j) = SubSeq(FullSequence(configs[j]), 1, Len(own))
            /\ \A i \in 1..Len(ProbesOf(j)) : ProbedDisks(j)[i] = configs[j].Disks[i]
            /\ Len(own) >= 2 => own[1].res = FALSE
            /\ CreateCallsFor(j) # {} => (AllProbed(j) /\ BlockDisks(j) # <<>>)
            /\ StatusCallsFor(j) # {} =>
                   \E k \in CreateCallsFor(j) :
                       /\ ~calls[k].res.failed
                       /\ \A m \in StatusCallsFor(j) : k < m

\* A pool with three disks went through the whole sequence.
C25_Witness ==
    /\ Len(configs) = 1
    /\ OpsOf(1) = <<"PoolExists", "IsBlockDevice", "IsBlockDevice", "IsBlockDevice",
                    "CreatePool", "GetPoolStatus">>
    /\ ProbedDisks(1) = <<<<"/", "d", "e", "v", "/", "s", "d", "a">>, <<"/", "d", "e", "v", "/", "s", "d", "b">>, <<"/", "d", "e", "v", "/", "s", "d", "c">>>>

\* C26: pools are processed strictly one at a time.  The provider calls of a
\* run are ordered by configuration; every step of the program makes at most
\* one provider call, which has returned when the step ends; and a call for
\* configuration j is only made while createPool is running for j, after
\* createPool has returned for every configuration before j.
C26_OneAtATime ==
    /\ [](\A k \in 1..Len(calls) : \A m \in k..Len(calls) :
              calls[k].pool <= calls[m].pool)
    /\ [][calls' # calls =>
              /\ Len(calls') = Len(calls) + 1
              /\ SubSeq(calls', 1, Len(calls)) = calls
              /\ LET c == calls'[Len(calls')]
                 IN  \/ c.op = "LookPath" /\ c.pool = 0 /\ pc = "start"
                     \/ /\ c.op # "LookPath"
                        /\ c.pool = idx
                        /\ Len(started) = idx
                        /\ Len(outcomes) = idx - 1
                        /\ pc \in {"exists", "probe", "create", "status"}]_vars

\* Three pools were created one after another: the calls for the first, then
\* those for the second, then those for the third.
C26_Witness ==
    /\ pc = "exit"
    /\ Len(configs) = 3
    /\ \A j \in 1..3 : Len(OwnCalls(j)) = 4
    /\ Len(calls) = 13
    /\ calls[2].pool = 1
    /\ calls[6].pool = 2
    /\ calls[13].pool = 3

\* The provider's answers to the calls made for configuration j, in order.
Results(j) == [i \in 1..Len(OwnCalls(j)) |-> OwnCalls(j)[i].res]

\* What a createPool call does next, as a function of its configuration and
\* of the answers rs it has received so far: the operation it calls, or
\* "none" when it returns.
NextOp(config, rs) ==
    LET n == Len(config.Disks)
    IN  IF ~ValidConfig(config) \/ n = 0 THEN "none"
        ELSE IF Len(rs) = 0 THEN "PoolExists"
        ELSE IF rs[1] = TRUE THEN "none"
        ELSE IF Len(rs) <= n THEN "IsBlockDevice"
        ELSE IF Len(rs) = n + 1
        THEN (IF \A i \in 2..(n + 1) : rs[i] # "block" THEN "none" ELSE "CreatePool")
        ELSE IF Len(rs) = n + 2
        THEN (IF rs[n + 2].failed THEN "none" ELSE "GetPoolStatus")
        ELSE "none"

\* Whether a createPool call that has returned failed, as a function of its
\* configuration and of the answers it received.
Failed(config, rs) ==
    LET n == Len(config.Disks)
    IN  \/ ~ValidConfig(config)
        \/ Len(rs) = n + 1 /\ \A i \in 2..(n + 1) : rs[i] # "block"
        \/ Len(rs) = n + 2 /\ rs[n + 2].failed

\* C27: a pool's provider calls and its outcome are a function of its own
\* configuration and of the provider's answers to its own calls, whatever the
\* other configurations of the batch are and whatever happened to them: each
\* call is the one that the configuration and the answers to the pool's
\* earlier calls determine, createPool returns exactly when they determine no
\* further call, it fails exactly when they say so, and every configuration
\* of the batch is processed.
C27_PoolsAreIndependent ==
    /\ \A j \in 1..Len(started) :
           LET own == OwnCalls(j)
               rs  == Results(j)
           IN  /\ \A i \in 1..Len(own) :
                      own[i].op = NextOp(configs[j], SubSeq(rs, 1, i - 1))
               /\ Len(outcomes) >= j <=> NextOp(configs[j], rs) = "none"
               /\ Len(outcomes) >= j =>
                      (outcomes[j].err.isErr <=> Failed(configs[j], rs))
    /\ \A j \in (Len(started) + 1)..Len(configs) : OwnCalls(j) = <<>>
    /\ (pc = "exit" /\ ToolFound) => Len(outcomes) = Len(configs)

\* The first and the third configuration are the same and got the same
\* answers; the second one, between them, failed; the first and the third
\* were both created.
C27_Witness ==
    /\ pc = "exit"
    /\ Len(configs) = 3
    /\ configs[1] = configs[3]
    /\ outcomes[2].err.isErr
    /\ Len(OwnCalls(1)) = 4
    /\ Results(1) = Results(3)
    /\ OpsOf(1) = OpsOf(3)
    /\ outcomes[1].err = Nil
    /\ outcomes[3].err = Nil

\* The pool name in the argument list of a CreatePool call.
CreatedName(k) == calls[k].arg[6]

\* The names for which a CreatePool call before position k succeeded.
CreatedBefore(k) ==
    {CreatedName(m) : m \in {m \in CallsOf("CreatePool") : m < k /\ ~calls[m].res.failed}}

\* The pool tool records pools faithfully: PoolExists answers true for a name
\* once a CreatePool for that name has succeeded.
FaithfulTool ==
    \A k \in CallsOf("PoolExists") :
        calls[k].arg \in CreatedBefore(k) => calls[k].res = TRUE

\* C28: against a pool tool that records pools faithfully, CreatePool is
\* never called for a name for which an earlier CreatePool succeeded, neither
\* later in the same run (two indices with the same name) nor in a later run
\* over the same environment.
C28_NoSecondCreate ==
    FaithfulTool =>
        \A k \in CallsOf("CreatePool") : CreatedName(k) \notin CreatedBefore(k)

\* Two runs over two pools named "tank" against a faithful tool: the first
\* run created the pool at its first index; the second index and the whole
\* second run found it existing, and the second run has exited with code 0.
C28_Witness ==
    /\ FaithfulTool
    /\ pc = "exit"
    /\ exitCode = <<0>>
    /\ Cardinality(CallsOf("LookPath")) = 2
    /\ Len(configs) = 2
    /\ configs[1].Name = configs[2].Name
    /\ Cardinality(CallsOf("CreatePool")) = 1
    /\ Cardinality(CallsOf("PoolExists")) = 4
    /\ \E k \in CallsOf("CreatePool") : ~calls[k].res.failed

\* The ashift of index i is given as the empty string: ZPOOL_ASHIFT_<i> is set
\* to it, or ZPOOL_ASHIFT_<i> is unset and ZPOOL_ASHIFT is set to it.
AshiftSetEmpty(i) ==
    LET own == Key("ZPOOL_ASHIFT_", i)
    IN  \/ own \in DOMAIN env /\ env[own] = <<>>
        \/ /\ own \notin DOMAIN env
           /\ "ZPOOL_ASHIFT" \in DOMAIN env
           /\ env["ZPOOL_ASHIFT"] = <<>>

\* C29 as stated: when the ashift of a pool is given as the empty string, the
\* parsed ashift is the empty string, not the fallback, and createPool fails
\* the pool with the invalid-ashift error.
C29_AsStated ==
    \A j \in 1..Len(outcomes) :
        AshiftSetEmpty(j - 1) =>
            /\ configs[j].Ashift = <<>>
            /\ AshiftRejected(j)

\* C29, amended: when the ashift of a pool is given as the empty string, the
\* parsed ashift is the empty string, not the fallback, and createPool fails
\* the pool without a provider call: with the invalid-ashift error when the
\* name and the type are valid, and with the invalid-name or invalid-type
\* error, which are checked first, otherwise.
C29_EmptyAshiftFails ==
    /\ \A j \in 1..Len(configs) : AshiftSetEmpty(j - 1) => configs[j].Ashift = <<>>
    /\ \A j \in 1..Len(outcomes) :
           AshiftSetEmpty(j - 1) =>
               /\ outcomes[j].err.isErr
               /\ CallsForPool(j) = {}
               /\ AshiftRejected(j) <=>
                      (isValidZpoolName(configs[j].Name) /\ isValidZpoolType(configs[j].Type))
               /\ AshiftRejected(j) =>
                      outcomes[j].err.msg = <<"i", "n", "v", "a", "l", "i", "d", " ", "a", "s", "h", "i", "f", "t", " ", "v", "a", "l", "u", "e", ":", " ", "\"", "\"">>
               /\ ~isValidZpoolName(configs[j].Name) => NameRejected(j)
               /\ (isValidZpoolName(configs[j].Name) /\ ~isValidZpoolType(configs[j].Type))
                      => TypeRejected(j)

\* ZPOOL_ASHIFT_0 is set to the empty string and ZPOOL_ASHIFT to 9: the pool
\* "tank" with three disks has failed with the invalid-ashift error.
C29_Witness ==
    /\ pc = "exit"
    /\ exitCode = <<1>>
    /\ Len(outcomes) = 1
    /\ "ZPOOL_ASHIFT_0" \in DOMAIN env
    /\ env["ZPOOL_ASHIFT_0"] = <<>>
    /\ Getenv(env, "ZPOOL_ASHIFT") = <<"9">>
    /\ Len(configs[1].Disks) = 3
    /\ AshiftRejected(1)

\* C30: every run terminates with an exit code of 0 or 1, provided each
\* external call returns.  At most maxPools configurations are parsed, a
\* pool makes at most three provider calls plus one probe per listed disk,
\* and a process that has exited takes no further step.
C30_Terminates ==
    /\ <>(pc = "exit" /\ exitCode \in {<<0>>, <<1>>})
    /\ [](/\ Len(configs) <= maxPools
          /\ \A j \in 1..Len(configs) :
                 Len(OwnCalls(j)) <= 3 + Len(configs[j].Disks)
          /\ exitCode # <<>> => (pc = "exit" /\ exitCode \in {<<0>>, <<1>>}))
    /\ [][pc # "exit"]_vars

\* A run over three pools has exited with code 1; one of its pools made all
\* the calls a pool with one disk can make.
C30_Witness ==
    /\ pc = "exit"
    /\ exitCode = <<1>>
    /\ Len(configs) = 3
    /\ Len(outcomes) = 3
    /\ \E j \in 1..3 : Len(OwnCalls(j)) = 3 + Len(configs[j].Disks)

====
